---- MODULE Spec2Model ----
(***************************************************************************)
(* Model of web_scraper.py: the retrying fetcher fetch_page, the extractor *)
(* scrape_elements and the pagination driver scrape_next_button.           *)
(*                                                                         *)
(* A crawl is one call of scrape_next_button.  Its steps are the pieces of *)
(* code between two suspension points (the network wait of an attempt, the *)
(* backoff sleep).  The web is a set of pages; each page has a fixed body  *)
(* and, depending on `link`, a trailing <a>Next</a> element.               *)
(***************************************************************************)
EXTENDS Integers, Sequences, FiniteSets, TLC

(* ---------------------------- bounds ----------------------------------- *)
NumUrls == 3
MaxRetriesArg == 4
MaxPagesArg == 3

(* ---------------------------- the web ---------------------------------- *)
UrlNames == <<"/p1", "/p2", "/p3", "/p4", "/p5", "/p6">>
URLs == {UrlNames[n] : n \in 1..NumUrls}

NoLink == "<none>"
NoHref == "<a>Next</a>"
LinkKinds == URLs \cup {NoLink, NoHref}

AllCrawls == {1, 2}

EmptyMap == [s \in {} |-> <<>>]
EmptyAttrs == [k \in {} |-> ""]

\* body of the page served at url u: two headings and a navigation anchor
PageBody(u) ==
    << [tag |-> "h1", attrs |-> [k \in {"class"} |-> "a"], string |-> <<" ", u, " ">>],
       [tag |-> "h1", attrs |-> EmptyAttrs, string |-> <<"Bye">>],
       [tag |-> "a", attrs |-> [k \in {"href"} |-> "/home"], string |-> <<"Home">>] >>

\* the "Next" anchor of a page, by kind of link
NextAnchor(l) ==
    IF l = NoLink THEN << >>
    ELSE IF l = NoHref
         THEN << [tag |-> "a", attrs |-> EmptyAttrs, string |-> <<"Next">>] >>
         ELSE << [tag |-> "a", attrs |-> [k \in {"href"} |-> l], string |-> <<"Next">>] >>

PageContent(u, lnk) == PageBody(u) \o NextAnchor(lnk[u])

(* --------------------- exceptions of an attempt ------------------------- *)
\* raised by session.get / raise_for_status / the timeout of one attempt
AttemptErrors == {"ClientConnectionError", "ClientResponseError", "TimeoutError"}
CancelledError == "CancelledError"

\* `except Exception`: CancelledError derives from BaseException only
Caught_OnlyClientErrors(e) == e \in {"ClientConnectionError", "ClientResponseError"}
Caught_BaseException(e) == e \in AttemptErrors \cup {CancelledError}
Caught(e) == e \in AttemptErrors

(* ----------------------------- fetch_page ------------------------------- *)
\* `for attempt in range(retries)`
AttemptInRange(attempt, retries) == attempt < retries

\* `if attempt == retries - 1`
IsLastAttempt_OffByOne(attempt, retries) == attempt = retries
IsLastAttempt(attempt, retries) == attempt = retries - 1

\* `await asyncio.sleep(2 ** attempt)`
Backoff_Linear(attempt) == 2 * attempt + 1
Backoff(attempt) == 2 ^ attempt

\* html_content values: not yet assigned, None, or the text of the response
\* (a sequence of elements; the empty sequence is the empty string)
Unbound == [kind |-> "unbound", body |-> << >>]
None == [kind |-> "None", body |-> << >>]
Text(body) == [kind |-> "str", body |-> body]

(* --------------------------- scrape_elements ---------------------------- *)
IsSpace(t) == t = " "

RECURSIVE LStrip(_)
LStrip(s) == IF s # << >> /\ IsSpace(Head(s)) THEN LStrip(Tail(s)) ELSE s

RECURSIVE RStrip(_)
RStrip(s) == IF s # << >> /\ IsSpace(s[Len(s)]) THEN RStrip(SubSeq(s, 1, Len(s) - 1)) ELSE s

\* element.get_text(strip=True)
GetText(element) == RStrip(LStrip(element.string))

\* soup.find_all(element_type)
FindAll(soup, element_type) == SelectSeq(soup, LAMBDA e : e.tag = element_type)

\* the dictionary built for one element (lines 84-88)
ElementData_NullFill(element, attributes) ==
    [k \in {attributes[j] : j \in DOMAIN attributes} \cup {"text"} |->
        IF k = "text" THEN GetText(element)
        ELSE IF k \in DOMAIN element.attrs THEN element.attrs[k] ELSE "None"]
ElementData(element, attributes) ==
    LET present == {attributes[j] : j \in DOMAIN attributes} \cap DOMAIN element.attrs
    IN  [k \in present \cup {"text"} |->
            IF k = "text" THEN GetText(element) ELSE element.attrs[k]]

scrape_elements(soup, elements) ==
    [element_type \in DOMAIN elements |->
        LET found == FindAll(soup, element_type)
        IN  [j \in 1..Len(found) |-> ElementData(found[j], elements[element_type])]]

(* -------------------------- scrape_next_button -------------------------- *)
\* `for _ in range(max_pages)`; i counts the iterations already started
LoopContinues_Inclusive(i, max_pages) == i <= max_pages
LoopContinues_AtLeastOnce(i, max_pages) == i < max_pages \/ i = 0
LoopContinues(i, max_pages) == i < max_pages

\* line 161: `all_results = {}` makes a new dictionary in every call, so the
\* dictionary the local name denotes in crawl c is the crawl's own
ResultsCell_ModuleLevel(c) == 1
ResultsCell(c) == c

\* `if not html_content`
NotContent_NoneOnly(html) == html.kind = "None"
NotContent(html) == html.kind = "None" \/ html.body = << >>

\* lines 170-173: append the page's records bucket by bucket
Merge_Deferred(all, results) == all
Merge_Replace(all, results) ==
    [s \in DOMAIN all \cup DOMAIN results |->
        IF s \in DOMAIN results THEN results[s] ELSE all[s]]
Merge_Prepend(all, results) ==
    [s \in DOMAIN all \cup DOMAIN results |->
        (IF s \in DOMAIN results THEN results[s] ELSE << >>) \o
        (IF s \in DOMAIN all THEN all[s] ELSE << >>)]
Merge(all, results) ==
    [s \in DOMAIN all \cup DOMAIN results |->
        (IF s \in DOMAIN all THEN all[s] ELSE << >>) \o
        (IF s \in DOMAIN results THEN results[s] ELSE << >>)]

\* soup.find("a", text="Next"): index of the first match, 0 when there is none
FindNext(soup) ==
    LET hits == {j \in DOMAIN soup : soup[j].tag = "a" /\ soup[j].string = <<"Next">>}
    IN  IF hits = {} THEN 0 ELSE CHOOSE j \in hits : \A h \in hits : j <= h

(* ----------------------------- save_results ---------------------------- *)
\* the if / elif / else on output_format (lines 101, 105, 114)
FormatBranch_DefaultJson(output_format) ==
    IF output_format = "csv" THEN "csv" ELSE "json"
FormatBranch(output_format) ==
    IF output_format = "json" THEN "json"
    ELSE IF output_format = "csv" THEN "csv" ELSE "unsupported"

\* f"{filename}.json" / f"{filename}.csv" for the default filename
FileName(branch) == IF branch = "json" THEN "output.json" ELSE "output.csv"

RECURSIVE Flatten(_)
Flatten(ss) == IF ss = << >> THEN << >> ELSE Head(ss) \o Flatten(Tail(ss))

\* iteration order of the dictionaries: keys in insertion order, which for
\* the element specifications used here is h1 before a, and for a record
\* the captured attributes in listed order followed by text
SelectorOrder == <<"h1", "a">>
KeyOrder == <<"class", "href", "text">>

\* lines 109-112: one row per (element type, attribute, value)
RecordRows(element_type, element) ==
    LET ks == SelectSeq(KeyOrder, LAMBDA k : k \in DOMAIN element)
    IN  [n \in 1..Len(ks) |-> <<element_type, ks[n], element[ks[n]]>>]

CsvRows(results) ==
    LET ts == SelectSeq(SelectorOrder, LAMBDA t : t \in DOMAIN results)
    IN  << <<"Element", "Attribute", "Value">> >> \o
        Flatten([n \in 1..Len(ts) |->
            Flatten([j \in 1..Len(results[ts[n]]) |->
                RecordRows(ts[n], results[ts[n]][j])])])

\* json.dump(results, f, indent=4): the document keeps the whole mapping
JsonDocument(results) == [format |-> "json", document |-> results]
CsvDocument(results) == [format |-> "csv", rows |-> CsvRows(results)]

EmptyFiles == [f \in {} |-> << >>]
UnsupportedFormatError ==
    [level |-> "ERROR", msg |-> "Unsupported output format. Use 'json' or 'csv'."]
SavedInfo(name) == [level |-> "INFO", msg |-> <<"Results saved to", name>>]

(* ------------------------------ inputs ---------------------------------- *)
ElementSpecs ==
    { [s \in {"h1"} |-> <<"class">>],
      [s \in {"h1", "a"} |-> IF s = "h1" THEN <<"class">> ELSE <<"href">>] }

VARIABLES
    link,         \* the web: for each url, where its "Next" link points
    args,         \* per crawl: base_url, elements, max_pages, retries
    pc,           \* per crawl: position in scrape_next_button / fetch_page
    i,            \* per crawl: iterations of the page loop started
    url,          \* per crawl: local url
    all_results,  \* per crawl: local all_results
    html,         \* per crawl: local html_content
    attempt,      \* per crawl: fetch_page's loop variable
    result,       \* per crawl: the value returned by scrape_next_button
    exc,          \* per crawl: exception that escaped scrape_next_button
    fetchCalls,   \* per crawl: calls of fetch_page made so far
    attempts,     \* per crawl: requests made by the current fetch_page call
    waits,        \* per crawl: sleeps made by the current fetch_page call
    lastExc,      \* per crawl: outcome of the latest attempt of the call
    cancelled,    \* per crawl: a cancellation was delivered
    inFlight,     \* per crawl: fetch_page calls started and not yet finished
    merges,       \* per crawl: pages whose records were merged into all_results
    ext,          \* a call of scrape_elements: pc, soup, elements, results
    sav           \* a call of save_results: pc, output_format, files, log

crawlVars == <<link, args, pc, i, url, all_results, html, attempt, result, exc,
               fetchCalls, attempts, waits, lastExc, cancelled, inFlight, merges>>
toolVars == <<ext, sav>>
vars == <<crawlVars, toolVars>>

ArgSets ==
    [base_url : {UrlNames[1]}, elements : ElementSpecs,
     max_pages : 0..MaxPagesArg, retries : 0..MaxRetriesArg]

\* the state right after the calls of the crawls in `active`, for a web out
\* of Links and arguments out of Args
InitWith(active, Links, Args) ==
    /\ link \in Links
    /\ args \in Args
    /\ \A c \in AllCrawls \ active :
          args[c] = [base_url |-> UrlNames[1], elements |-> [s \in {"h1"} |-> <<"class">>],
                     max_pages |-> 0, retries |-> 0]
    /\ pc = [c \in AllCrawls |-> IF c \in active THEN "loop" ELSE "idle"]
    /\ i = [c \in AllCrawls |-> 0]
    /\ url = [c \in AllCrawls |-> args[c].base_url]
    /\ all_results = [c \in AllCrawls |-> EmptyMap]
    /\ html = [c \in AllCrawls |-> Unbound]
    /\ attempt = [c \in AllCrawls |-> 0]
    /\ result = [c \in AllCrawls |-> EmptyMap]
    /\ exc = [c \in AllCrawls |-> "none"]
    /\ fetchCalls = [c \in AllCrawls |-> 0]
    /\ attempts = [c \in AllCrawls |-> 0]
    /\ waits = [c \in AllCrawls |-> << >>]
    /\ lastExc = [c \in AllCrawls |-> "none"]
    /\ cancelled = [c \in AllCrawls |-> FALSE]
    /\ inFlight = [c \in AllCrawls |-> 0]
    /\ merges = [c \in AllCrawls |-> 0]

\* the crawls in `active` ask for both selectors, so that the "Next" anchors
\* themselves are among the records
InitFor(active) ==
    InitWith(active, [URLs -> LinkKinds],
             {a \in [AllCrawls -> ArgSets] :
                 \A c \in active : DOMAIN a[c].elements = {"h1", "a"}})

\* no call of scrape_elements or save_results is under way
ToolsIdle ==
    /\ ext = [pc |-> "idle", soup |-> << >>, elements |-> EmptyMap, results |-> EmptyMap]
    /\ sav = [pc |-> "idle", output_format |-> "json", files |-> EmptyFiles, log |-> << >>]

Init == InitFor({1}) /\ ToolsIdle

\* two crawls started together (asyncio.gather of two scrape_next_button
\* calls) on a web whose pages form a ring with some "Next" links missing
Succ(u) == LET n == CHOOSE m \in 1..NumUrls : UrlNames[m] = u IN UrlNames[(n % NumUrls) + 1]
RingLinks == {l \in [URLs -> LinkKinds] : \A u \in URLs : l[u] \in {Succ(u), NoLink}}
TwoCrawlArgs ==
    {a \in [AllCrawls -> [base_url : {UrlNames[1], UrlNames[2]}, elements : ElementSpecs,
                          max_pages : {1, 2}, retries : {1, 2}]] :
        /\ a[1].base_url = UrlNames[1] /\ a[1].max_pages = 2
        /\ a[2].retries = 1 /\ DOMAIN a[2].elements = {"h1", "a"}}

InitTwo == InitWith({1, 2}, RingLinks, TwoCrawlArgs) /\ ToolsIdle

(* ------------------------------ actions --------------------------------- *)
\* fetch_page returns v to scrape_next_button
FetchReturns(c, v) ==
    /\ html' = [html EXCEPT ![c] = v]
    /\ pc' = [pc EXCEPT ![c] = "fetched"]

\* an exception leaves fetch_page; scrape_next_button has no handler
Raise(c, e) ==
    /\ exc' = [exc EXCEPT ![c] = e]
    /\ pc' = [pc EXCEPT ![c] = "raised"]

\* lines 163-165 and 56-57: head of the page loop, call of fetch_page
NextIteration(c) ==
    /\ pc[c] = "loop"
    /\ IF LoopContinues(i[c], args[c].max_pages)
       THEN /\ i' = [i EXCEPT ![c] = @ + 1]
            /\ fetchCalls' = [fetchCalls EXCEPT ![c] = @ + 1]
            /\ attempt' = [attempt EXCEPT ![c] = 0]
            /\ attempts' = [attempts EXCEPT ![c] = 0]
            /\ waits' = [waits EXCEPT ![c] = << >>]
            /\ lastExc' = [lastExc EXCEPT ![c] = "none"]
            /\ IF AttemptInRange(0, args[c].retries)
               THEN /\ pc' = [pc EXCEPT ![c] = "attempt"]
                    /\ inFlight' = [inFlight EXCEPT ![c] = @ + 1]
                    /\ UNCHANGED html
               ELSE /\ FetchReturns(c, None)
                    /\ UNCHANGED inFlight
            /\ UNCHANGED result
       ELSE /\ pc' = [pc EXCEPT ![c] = "done"]
            /\ result' = [result EXCEPT ![c] = all_results[ResultsCell(c)]]
            /\ UNCHANGED <<i, fetchCalls, attempt, attempts, waits, lastExc, html, inFlight>>
    /\ UNCHANGED <<link, args, url, all_results, exc, cancelled, merges>>
    /\ UNCHANGED toolVars

\* lines 59-62: the request succeeds; body is the page, or an empty response
AttemptSucceeds_KeepsLooping(c) ==
    /\ pc[c] = "attempt"
    /\ \E body \in {PageContent(url[c], link), << >>} :
          html' = [html EXCEPT ![c] = Text(body)]
    /\ attempts' = [attempts EXCEPT ![c] = @ + 1]
    /\ lastExc' = [lastExc EXCEPT ![c] = "none"]
    /\ attempt' = [attempt EXCEPT ![c] = @ + 1]
    /\ IF AttemptInRange(attempt[c] + 1, args[c].retries)
       THEN /\ pc' = [pc EXCEPT ![c] = "attempt"]
            /\ UNCHANGED inFlight
       ELSE /\ pc' = [pc EXCEPT ![c] = "fetched"]
            /\ inFlight' = [inFlight EXCEPT ![c] = @ - 1]
    /\ UNCHANGED <<link, args, i, url, all_results, result, exc, fetchCalls,
                   waits, cancelled, merges>>
    /\ UNCHANGED toolVars
AttemptSucceeds(c) ==
    /\ pc[c] = "attempt"
    /\ \E body \in {PageContent(url[c], link), << >>} : FetchReturns(c, Text(body))
    /\ attempts' = [attempts EXCEPT ![c] = @ + 1]
    /\ lastExc' = [lastExc EXCEPT ![c] = "none"]
    /\ inFlight' = [inFlight EXCEPT ![c] = @ - 1]
    /\ UNCHANGED <<link, args, i, url, all_results, attempt, result, exc, fetchCalls,
                   waits, cancelled, merges>>
    /\ UNCHANGED toolVars

\* lines 63-68: exception e is raised inside the try block of this attempt
HandleException(c, e) ==
    /\ attempts' = [attempts EXCEPT ![c] = @ + 1]
    /\ lastExc' = [lastExc EXCEPT ![c] = e]
    /\ IF Caught(e)
       THEN IF IsLastAttempt(attempt[c], args[c].retries)
            THEN /\ FetchReturns(c, None)
                 /\ inFlight' = [inFlight EXCEPT ![c] = @ - 1]
                 /\ UNCHANGED <<waits, exc>>
            ELSE /\ pc' = [pc EXCEPT ![c] = "sleep"]
                 /\ waits' = [waits EXCEPT ![c] = Append(@, Backoff(attempt[c]))]
                 /\ UNCHANGED <<html, exc, inFlight>>
       ELSE /\ Raise(c, e)
            /\ inFlight' = [inFlight EXCEPT ![c] = @ - 1]
            /\ UNCHANGED <<waits, html>>

AttemptFails(c) ==
    /\ pc[c] = "attempt"
    /\ \E e \in AttemptErrors : HandleException(c, e)
    /\ UNCHANGED <<link, args, i, url, all_results, attempt, result, fetchCalls, cancelled,
                   merges>>
    /\ UNCHANGED toolVars

\* line 68 then 57: the sleep ends, the for loop takes its next value
BackoffElapses(c) ==
    /\ pc[c] = "sleep"
    /\ attempt' = [attempt EXCEPT ![c] = @ + 1]
    /\ IF AttemptInRange(attempt[c] + 1, args[c].retries)
       THEN /\ pc' = [pc EXCEPT ![c] = "attempt"]
            /\ UNCHANGED <<html, inFlight>>
       ELSE /\ FetchReturns(c, None)
            /\ inFlight' = [inFlight EXCEPT ![c] = @ - 1]
    /\ UNCHANGED <<link, args, i, url, all_results, result, exc, fetchCalls, attempts,
                   waits, lastExc, cancelled, merges>>
    /\ UNCHANGED toolVars

\* the task running the crawl is cancelled while suspended in the request
CancelDuringAttempt(c) ==
    /\ pc[c] = "attempt"
    /\ cancelled' = [cancelled EXCEPT ![c] = TRUE]
    /\ HandleException(c, CancelledError)
    /\ UNCHANGED <<link, args, i, url, all_results, attempt, result, fetchCalls, merges>>
    /\ UNCHANGED toolVars

\* the task is cancelled while suspended in asyncio.sleep, which is inside
\* the except block: nothing catches the CancelledError
CancelDuringBackoff(c) ==
    /\ pc[c] = "sleep"
    /\ cancelled' = [cancelled EXCEPT ![c] = TRUE]
    /\ Raise(c, CancelledError)
    /\ inFlight' = [inFlight EXCEPT ![c] = @ - 1]
    /\ UNCHANGED <<link, args, i, url, all_results, html, attempt, result, fetchCalls,
                   attempts, waits, lastExc, merges>>
    /\ UNCHANGED toolVars

\* lines 166-178: the rest of the iteration after fetch_page has returned
ProcessPage(c) ==
    /\ pc[c] = "fetched"
    /\ IF NotContent(html[c])
       THEN /\ pc' = [pc EXCEPT ![c] = "done"]
            /\ result' = [result EXCEPT ![c] = all_results[ResultsCell(c)]]
            /\ UNCHANGED <<all_results, url, exc, merges>>
       ELSE LET soup == html[c].body
                merged == Merge(all_results[ResultsCell(c)],
                                scrape_elements(soup, args[c].elements))
                next_button == FindNext(soup)
            IN  /\ all_results' = [all_results EXCEPT ![ResultsCell(c)] = merged]
                /\ merges' = [merges EXCEPT ![c] = @ + 1]
                /\ IF next_button = 0
                   THEN /\ pc' = [pc EXCEPT ![c] = "done"]
                        /\ result' = [result EXCEPT ![c] = merged]
                        /\ UNCHANGED <<url, exc>>
                   ELSE IF "href" \in DOMAIN soup[next_button].attrs
                        THEN /\ url' = [url EXCEPT ![c] = soup[next_button].attrs["href"]]
                             /\ pc' = [pc EXCEPT ![c] = "loop"]
                             /\ UNCHANGED <<result, exc>>
                        ELSE /\ Raise(c, "KeyError")
                             /\ UNCHANGED <<url, result>>
    /\ UNCHANGED <<link, args, i, html, attempt, fetchCalls, attempts, waits, lastExc,
                   cancelled, inFlight>>
    /\ UNCHANGED toolVars

Next ==
    \E c \in AllCrawls :
        \/ NextIteration(c)
        \/ AttemptSucceeds(c)
        \/ AttemptFails(c)
        \/ BackoffElapses(c)
        \/ CancelDuringAttempt(c)
        \/ CancelDuringBackoff(c)
        \/ ProcessPage(c)

Spec == Init /\ [][Next]_vars

SpecTwo == InitTwo /\ [][Next]_vars

\* the event loop resumes a suspended crawl: a request ends within its
\* timeout of 10 seconds and a sleep ends after its delay
FairArgs ==
    [AllCrawls -> [base_url : {UrlNames[1]}, elements : {[s \in {"h1"} |-> <<"class">>]},
                   max_pages : 0..MaxPagesArg, retries : {0, 2}]]

InitFair == InitWith({1}, [URLs -> LinkKinds], FairArgs) /\ ToolsIdle

SpecFair == InitFair /\ [][Next]_vars /\ WF_vars(Next)

(* ------------- scrape_elements and save_results on their own ------------ *)
MaxElements == 2

\* the elements a parsed page is made of
DomAttrs ==
    { EmptyAttrs, [k \in {"class"} |-> "a"],
      [k \in {"class", "href"} |-> IF k = "class" THEN "b" ELSE "/p2"] }
DomStrings == { <<"Hi">>, <<"Bye">>, <<" ", "Hi", " ">> }
DomElements == [tag : {"h1", "a"}, attrs : DomAttrs, string : DomStrings]
Soups == UNION {[1..n -> DomElements] : n \in 0..MaxElements}

ExtractSpecs ==
    ElementSpecs \cup
    { [s \in {"h1"} |-> << >>], [s \in {"a"} |-> <<"class", "href">>] }
OutputFormats == {"json", "csv", "xml", "JSON"}

InitTools ==
    /\ InitWith({}, {[u \in URLs |-> NoLink]},
                {[c \in AllCrawls |->
                    [base_url |-> UrlNames[1], elements |-> [s \in {"h1"} |-> <<"class">>],
                     max_pages |-> 0, retries |-> 0]]})
    /\ \E soup \in Soups, elements \in ExtractSpecs :
          ext = [pc |-> "call", soup |-> soup, elements |-> elements, results |-> EmptyMap]
    /\ \E output_format \in OutputFormats :
          sav = [pc |-> "call", output_format |-> output_format, files |-> EmptyFiles,
                 log |-> << >>]

\* lines 71-90: scrape_elements(soup, elements) runs and returns
Extract ==
    /\ ext.pc = "call"
    /\ ext' = [ext EXCEPT !.pc = "returned",
                          !.results = scrape_elements(ext.soup, ext.elements)]
    /\ UNCHANGED <<sav, crawlVars>>

\* lines 93-115: save_results(results, output_format) on the extracted data;
\* open() for writing may fail with OSError, which nothing catches
SaveResults ==
    /\ ext.pc = "returned"
    /\ sav.pc = "call"
    /\ LET branch == FormatBranch(sav.output_format)
           name == FileName(branch)
           doc == IF branch = "json" THEN JsonDocument(ext.results)
                  ELSE CsvDocument(ext.results)
       IN  IF branch = "unsupported"
           THEN sav' = [sav EXCEPT !.pc = "returned",
                                   !.log = Append(@, UnsupportedFormatError)]
           ELSE \/ sav' = [sav EXCEPT !.pc = "returned",
                                      !.files = [f \in DOMAIN @ \cup {name} |->
                                                    IF f = name THEN doc ELSE @[f]],
                                      !.log = Append(@, SavedInfo(name))]
                \/ sav' = [sav EXCEPT !.pc = "raised"]
    /\ UNCHANGED <<ext, crawlVars>>

NextTools == Extract \/ SaveResults

SpecTools == InitTools /\ [][NextTools]_vars

(* ------------------- reference values for the claims -------------------- *)
\* url of the k-th page of crawl c's chain: the start url, then the targets
\* of the "Next" links; NoLink once the chain has ended
RECURSIVE ChainUrl(_, _)
ChainUrl(c, k) ==
    IF k = 1 THEN args[c].base_url
    ELSE LET p == ChainUrl(c, k - 1)
         IN  IF p \in URLs THEN link[p] ELSE NoLink

\* every one of the first n pages of the chain has a "Next" link with a target
ChainLinked(c, n) == \A k \in 1..n : ChainUrl(c, k) \in URLs /\ link[ChainUrl(c, k)] \in URLs

\* records of selector s on the first n pages of the chain, in crawl order
RECURSIVE ExpectedBucket(_, _, _)
ExpectedBucket(c, s, n) ==
    IF n = 0 THEN << >>
    ELSE ExpectedBucket(c, s, n - 1) \o
         scrape_elements(PageContent(ChainUrl(c, n), link), args[c].elements)[s]

Expected(c, n) ==
    IF n = 0 THEN EmptyMap
    ELSE [s \in DOMAIN args[c].elements |-> ExpectedBucket(c, s, n)]

Running == {c \in AllCrawls : pc[c] # "idle"}

\* the page at the crawl's current url was fetched and the iteration finished
ProcessedCurrent(c) ==
    /\ pc[c] # "fetched"
    /\ html[c] = Text(PageContent(url[c], link))

(* ------------------------------- claims --------------------------------- *)
\* C1: when every attempt of a fetch_page call fails, exactly retries + 1
\* requests have been made when the call reports the failure (returns None).
C1_ExhaustionAfterRetriesPlusOne ==
    \A c \in Running :
        (pc[c] = "fetched" /\ html[c].kind = "None") => attempts[c] = args[c].retries + 1

\* C2: once the final allowed attempt of a fetch_page call has failed, the
\* call has returned None and no exception has left it; with retries = 0 the
\* call returns None as well.
C2_ExhaustionReturnsNone ==
    \A c \in Running :
        ( /\ fetchCalls[c] >= 1
          /\ attempts[c] = args[c].retries
          /\ args[c].retries > 0 => lastExc[c] \in AttemptErrors )
        => /\ html[c].kind = "None"
           /\ exc[c] = "none"
           /\ pc[c] \in {"fetched", "done"}

C2_Witness ==
    \E c \in Running :
        /\ args[c].retries = 3 /\ attempts[c] = 3 /\ lastExc[c] = "TimeoutError"
        /\ pc[c] = "fetched" /\ html[c].kind = "None"

\* C3: a crawl never makes more than max_pages calls of fetch_page, in
\* particular when every fetched page has a "Next" link with a target.
C3_FetchCallsAtMostMaxPages ==
    \A c \in Running : fetchCalls[c] <= args[c].max_pages

C3_Witness ==
    \E c \in Running :
        /\ args[c].max_pages = 3 /\ ChainLinked(c, 3)
        /\ pc[c] = "done" /\ fetchCalls[c] = 3 /\ html[c].kind = "str"

\* C4: when the fetch of the k-th page returns the definitive failure, the
\* crawl fetches nothing more and returns exactly the records of pages
\* 1..k-1 in crawl order.
C4_FailureReturnsPartial ==
    \A c \in Running :
        (fetchCalls[c] >= 1 /\ html[c].kind = "None")
        => /\ pc[c] \in {"fetched", "done"}
           /\ exc[c] = "none"
           /\ ChainLinked(c, fetchCalls[c] - 1)
           /\ all_results[c] = Expected(c, fetchCalls[c] - 1)
           /\ pc[c] = "done" => result[c] = Expected(c, fetchCalls[c] - 1)

C4_Witness ==
    \E c \in Running :
        /\ fetchCalls[c] = 3 /\ html[c].kind = "None" /\ attempts[c] = 2
        /\ pc[c] = "done" /\ result[c] = Expected(c, 2) /\ result[c] # EmptyMap

\* C5: when the fetched page has a "Next" link without a target, the crawl
\* stops and returns the records accumulated so far, that page's included,
\* and nothing is raised.
C5_NextWithoutTargetStops ==
    \A c \in Running :
        (ProcessedCurrent(c) /\ link[url[c]] = NoHref)
        => /\ pc[c] = "done"
           /\ exc[c] = "none"
           /\ result[c] = Expected(c, fetchCalls[c])

\* C6: the crawl stops at the first fetched page without a "Next" link, and
\* returns per selector exactly the records of that page and of all pages
\* before it, in crawl order.
C6_StopsAtFirstPageWithoutNext ==
    \A c \in Running :
        /\ ChainLinked(c, fetchCalls[c] - 1)
        /\ (ProcessedCurrent(c) /\ link[url[c]] = NoLink)
           => /\ pc[c] = "done"
              /\ exc[c] = "none"
              /\ url[c] = ChainUrl(c, fetchCalls[c])
              /\ result[c] = Expected(c, fetchCalls[c])

C6_Witness ==
    \E c \in Running :
        /\ pc[c] = "done" /\ fetchCalls[c] = 2 /\ args[c].max_pages = 3
        /\ ProcessedCurrent(c) /\ link[url[c]] = NoLink
        /\ DOMAIN result[c] = {"h1", "a"}
        /\ Len(result[c]["h1"]) = 4

\* C7: when the first max_pages pages of the chain all have a "Next" link
\* with a target and every fetch succeeds, the crawl makes max_pages fetches
\* and returns exactly the records of the first max_pages pages.
C7_CapCutsTheChain ==
    \A c \in Running :
        ( /\ pc[c] = "done"
          /\ args[c].max_pages >= 1
          /\ ChainLinked(c, args[c].max_pages)
          /\ html[c].kind = "str" /\ html[c].body # << >> )
        => /\ fetchCalls[c] = args[c].max_pages
           /\ exc[c] = "none"
           /\ result[c] = Expected(c, args[c].max_pages)

C7_Witness ==
    \E c \in Running :
        /\ pc[c] = "done" /\ args[c].max_pages = 2
        /\ link["/p1"] = "/p2" /\ link["/p2"] = "/p3"
        /\ fetchCalls[c] = 2
        /\ result[c] = Expected(c, 2) /\ result[c] # Expected(c, 3)

\* C8: the j-th wait of a fetch_page call, made after the failed attempt
\* with index j - 1, is 2^(j-1) seconds: the waits are 1, 2, 4, ... and
\* strictly increase.
C8_BackoffDoubles ==
    \A c \in Running :
        /\ \A j \in 1..Len(waits[c]) :
              /\ waits[c][j] = 2 ^ (j - 1)
              /\ j > 1 => waits[c][j] > waits[c][j - 1]
        /\ pc[c] = "sleep" => Len(waits[c]) = attempt[c] + 1

C8_Witness == \E c \in Running : waits[c] = <<1, 2, 4>> /\ pc[c] = "sleep"

\* C9 as stated: a cancellation during an attempt or a backoff wait makes the
\* crawl return the partial result instead of raising.
C9_CancelReturnsPartial ==
    \A c \in Running :
        cancelled[c] => pc[c] = "done" /\ exc[c] = "none" /\ result[c] = all_results[c]

\* C9 amended: a cancellation during an attempt or a backoff wait leaves the
\* crawl as CancelledError; the fetch is abandoned and nothing is returned.
C9_CancelPropagates ==
    \A c \in Running :
        cancelled[c] => pc[c] = "raised" /\ exc[c] = CancelledError /\ result[c] = EmptyMap

C9_Witness ==
    \E c \in Running :
        /\ cancelled[c] /\ pc[c] = "raised"
        /\ all_results[c] # EmptyMap /\ fetchCalls[c] = 2

\* C10 as stated: with max_pages < 1 the crawl does not return an ordinary
\* result.
C10_RejectsMaxPagesBelowOne ==
    \A c \in Running : args[c].max_pages < 1 => pc[c] # "done"

\* C10 amended: with max_pages < 1 the crawl makes no fetch and returns the
\* empty mapping without raising.
C10_MaxPagesBelowOneReturnsEmpty ==
    \A c \in Running :
        args[c].max_pages < 1
        => /\ fetchCalls[c] = 0
           /\ exc[c] = "none"
           /\ pc[c] \in {"loop", "done"}
           /\ pc[c] = "done" => result[c] = EmptyMap

C10_Witness ==
    \E c \in Running : args[c].max_pages = 0 /\ pc[c] = "done" /\ result[c] = EmptyMap

\* C11: the pages of one crawl are handled one after the other: at most one
\* fetch_page call of the crawl is in flight, and while the fetch of page
\* N+1 is in flight the records of pages 1..N have all been merged.
C11_SequentialPages ==
    \A c \in Running :
        /\ inFlight[c] \in {0, 1}
        /\ merges[c] <= fetchCalls[c]
        /\ inFlight[c] = 1
           => /\ pc[c] \in {"attempt", "sleep"}
              /\ merges[c] = fetchCalls[c] - 1
              /\ all_results[c] = Expected(c, fetchCalls[c] - 1)

C11_Witness ==
    \E c \in Running :
        /\ inFlight[c] = 1 /\ fetchCalls[c] = 3 /\ merges[c] = 2 /\ pc[c] = "sleep"
        /\ all_results[c] # Expected(c, 1)

IsPrefix(a, b) == Len(a) <= Len(b) /\ SubSeq(b, 1, Len(a)) = a

\* C12: in every step of a crawl each selector of the accumulated result
\* stays, and its record sequence is extended at the end or left alone:
\* nothing is removed, replaced or reordered.
C12_ResultOnlyGrows ==
    [][\A c \in AllCrawls :
          \A s \in DOMAIN all_results[c] :
              /\ s \in DOMAIN all_results'[c]
              /\ IsPrefix(all_results[c][s], all_results'[c][s])]_vars

C12_Witness ==
    \E c \in Running :
        /\ merges[c] = 2 /\ DOMAIN all_results[c] = {"h1", "a"}
        /\ Len(all_results[c]["h1"]) = 4
        /\ all_results[c]["h1"][1] # all_results[c]["h1"][3]

\* the variables of crawl c that its own steps write
Locals(c) ==
    <<i[c], url[c], all_results[c], html[c], attempt[c], result[c], exc[c],
      fetchCalls[c], attempts[c], waits[c], lastExc[c], cancelled[c], merges[c]>>

\* C13: crawls that interleave at their suspension points do not affect
\* each other: the accumulated and the returned result of a crawl are those
\* of its own chain and its own page outcomes, and a step of one crawl
\* leaves everything of the other crawl as it was.
C13_CrawlsIndependent ==
    /\ [](\A c \in Running :
            /\ all_results[c] = Expected(c, merges[c])
            /\ pc[c] = "done" => result[c] = Expected(c, merges[c]))
    /\ [][\A c \in AllCrawls : pc'[c] = pc[c] => Locals(c)' = Locals(c)]_vars

C13_Witness ==
    /\ pc[1] = "sleep" /\ pc[2] = "attempt"
    /\ merges[1] = 1 /\ merges[2] = 1
    /\ args[2].base_url = "/p2"
    /\ all_results[1] # all_results[2]
    /\ all_results[1] = Expected(1, 1) /\ all_results[2] = Expected(2, 1)

\* positions of the elements of soup with tag t, and the rank of a position
MatchIdx(soup, t) == {j \in DOMAIN soup : soup[j].tag = t}
Rank(S, j) == Cardinality({m \in S : m <= j})

\* t is raw without the spaces at its two ends
IsTrimOf(t, raw) ==
    /\ t # << >> => ~IsSpace(t[1]) /\ ~IsSpace(t[Len(t)])
    /\ \E a \in 0..Len(raw) :
          /\ a + Len(t) <= Len(raw)
          /\ SubSeq(raw, a + 1, a + Len(t)) = t
          /\ \A m \in (1..a) \cup ((a + Len(t) + 1)..Len(raw)) : IsSpace(raw[m])

ExampleSoup ==
    << [tag |-> "h1", attrs |-> [k \in {"class"} |-> "a"], string |-> <<"Hi">>],
       [tag |-> "h1", attrs |-> EmptyAttrs, string |-> <<"Bye">>] >>
ExampleResult ==
    [t \in {"h1"} |->
        << [k \in {"class", "text"} |-> IF k = "class" THEN "a" ELSE <<"Hi">>],
           [k \in {"text"} |-> <<"Bye">>] >>]

C15_UnsupportedFormatWritesNothing ==
    (sav.pc \in {"returned", "raised"} /\ sav.output_format \notin {"json", "csv"})
    => /\ sav.pc = "returned"
       /\ sav.files = EmptyFiles
       /\ sav.log = <<UnsupportedFormatError>>

C15_Witness ==
    /\ sav.pc = "returned" /\ sav.output_format = "xml"
    /\ ext.results = ExampleResult
    /\ sav.files = EmptyFiles /\ Len(sav.log) = 1 /\ sav.log[1].level = "ERROR"

\* C17: fetch_page stops at its first successful attempt: the loop only goes
\* on after a failed attempt, and when the call returns content the number
\* of requests made is the 1-based index of the successful attempt, with one
\* wait after each of the failed attempts before it and none after it.
C17_StopsAtFirstSuccess ==
    \A c \in Running :
        /\ pc[c] \in {"attempt", "sleep"}
           => attempts[c] = 0 \/ lastExc[c] \in AttemptErrors
        /\ (pc[c] = "fetched" /\ html[c].kind = "str")
           => /\ lastExc[c] = "none"
              /\ inFlight[c] = 0
              /\ attempts[c] = attempt[c] + 1
              /\ Len(waits[c]) = attempts[c] - 1

C17_Witness ==
    \E c \in Running :
        /\ pc[c] = "fetched" /\ html[c].kind = "str" /\ html[c].body # << >>
        /\ attempts[c] = 3 /\ waits[c] = <<1, 2>> /\ args[c].retries = 4

\* C18: fetch_page never waits after its final attempt has failed: a wait is
\* always followed by another attempt, so a call that ends by exhaustion has
\* made one wait less than requests (none when one attempt is allowed).
C18_NoWaitAfterLastAttempt ==
    \A c \in Running :
        /\ pc[c] = "sleep" => AttemptInRange(attempt[c] + 1, args[c].retries)
        /\ (pc[c] = "fetched" /\ html[c].kind = "None" /\ attempts[c] >= 1)
           => /\ Len(waits[c]) = attempts[c] - 1
              /\ args[c].retries = 1 => waits[c] = << >>

C18_Witness ==
    \E c \in Running :
        /\ pc[c] = "fetched" /\ html[c].kind = "None"
        /\ attempts[c] = 3 /\ waits[c] = <<1, 2>> /\ lastExc[c] \in AttemptErrors

\* C19: a successful fetch with empty content ends the crawl like a failed
\* fetch: the extractor is not run on it, so the page adds no records and no
\* selector keys (an empty first page gives the empty mapping).
C19_EmptyContentStopsLikeFailure ==
    \A c \in Running :
        (pc[c] # "fetched" /\ html[c].kind = "str" /\ html[c].body = << >>)
        => /\ pc[c] = "done"
           /\ exc[c] = "none"
           /\ merges[c] = fetchCalls[c] - 1
           /\ result[c] = Expected(c, fetchCalls[c] - 1)
           /\ fetchCalls[c] = 1 => result[c] = EmptyMap

C19_Witness ==
    \E c \in Running :
        /\ pc[c] = "done" /\ html[c] = Text(<< >>)
        /\ fetchCalls[c] = 1 /\ result[c] = EmptyMap /\ args[c].max_pages = 3

Terminated(c) == pc[c] \in {"done", "raised"}

\* C20: a crawl always terminates, whatever the link structure; visited urls
\* are not tracked, so on a chain that stays linked (a cycle included) with
\* every fetch delivering a page, the crawl ends only by the cap, after
\* exactly max_pages iterations, with every fetched page's records appended
\* again each time the page comes round.
C20_CrawlTerminates ==
    /\ <>(\A c \in Running : Terminated(c))
    /\ [](\A c \in Running :
            ( /\ Terminated(c) /\ exc[c] = "none"
              /\ html[c].kind = "str" /\ html[c].body # << >>
              /\ ChainLinked(c, args[c].max_pages) )
            => /\ i[c] = args[c].max_pages
               /\ merges[c] = args[c].max_pages
               /\ result[c] = Expected(c, args[c].max_pages)
               /\ \A t \in DOMAIN result[c] :
                     Len(result[c][t]) =
                        args[c].max_pages * Len(scrape_elements(
                            PageContent(args[c].base_url, link), args[c].elements)[t]))

C20_Witness ==
    \E c \in Running :
        /\ link[args[c].base_url] = args[c].base_url
        /\ args[c].max_pages = 3 /\ pc[c] = "done" /\ merges[c] = 3
        /\ Len(result[c]["h1"]) = 6
        /\ result[c]["h1"][1] = result[c]["h1"][5]

====
